---------------------------- MODULE Spec2Model ----------------------------
(***************************************************************************)
(* AI Background Remover: the App component's session state machine        *)
(* (App.tsx) and the API client removeBackground (services/geminiService). *)
(*                                                                         *)
(* Strings are sequences of tokens: a literal of the source is one token,  *)
(* the empty string is << >>, concatenation is \o.  null and undefined are *)
(* one-token sequences over tokens no string of the program contains.      *)
(***************************************************************************)
EXTENDS Integers, Sequences, FiniteSets, TLC

\* ------------------------------------------------------------------ bounds
\* Submissions (processFile calls) explored per behaviour.
MaxSubmits == 2
\* Longest parts list of a response candidate.
MaxParts == 2
\* Most candidates in a response.
MaxCandidates == 2

\* ------------------------------------------------------------------ values
Null == <<"#null">>
Undefined == <<"#undefined">>

\* JavaScript truthiness of a string | null | undefined value.
Truthy(v) == v # Null /\ v # Undefined /\ v # << >>

\* `${v}` : a template literal renders undefined as the text "undefined".
ToStr(v) == IF v = Undefined THEN <<"undefined">> ELSE IF v = Null THEN <<"null">> ELSE v

\* s.startsWith(p)
startsWith(s, p) == Len(s) >= Len(p) /\ SubSeq(s, 1, Len(p)) = p

\* s contains t
Contains(s, t) == \E i \in 0..(Len(s) - Len(t)) : SubSeq(s, i + 1, i + Len(t)) = t

\* s.split(sep) for a one-token separator: the pieces between separators.
RECURSIVE splitFrom(_, _, _, _)
splitFrom(s, sep, i, cur) ==
    IF i > Len(s) THEN <<cur>>
    ELSE IF s[i] = sep THEN <<cur>> \o splitFrom(s, sep, i + 1, << >>)
    ELSE splitFrom(s, sep, i + 1, Append(cur, s[i]))

split(s, sep) == splitFrom(s, sep, 1, << >>)

\* a[i] with a zero-based index: undefined beyond the end.
At(a, i) == IF i + 1 <= Len(a) THEN a[i + 1] ELSE Undefined

\* ------------------------------------------------------------------- files
\* File handles; NullFile is the null of useState<File | null>.
NullFile == 0
Files == {1, 2, 3, 4}
\* What an input or drop event carries: a file, or no file at all.
NoFile == NullFile

FileName(f) ==
    CASE f = 1 -> <<"cat", ".", "png">>
      [] f = 2 -> <<"notes", ".", "txt">>
      [] f = 3 -> <<"photo">>
      [] OTHER -> <<"scan", ".", "v2", ".", "jpeg">>

\* file.type: the media type ('' when the browser knows none).
FileType(f) ==
    CASE f = 1 -> <<"image/", "png">>
      [] f = 2 -> <<"text/", "plain">>
      [] f = 3 -> << >>
      [] OTHER -> <<"image/", "jpeg">>

\* FileReader.result at loadend of readAsDataURL: a data URL, or null when
\* the read failed.
ReadResults ==
    { <<"data:image/png;base64", ",", "QUJD">>,
      <<"data:image/png;base64", ",">>,
      <<"data:">>,
      Null }

\* The values process.env.API_KEY can hold.
ApiKeys == { Undefined, << >>, <<"k3y">> }

\* --------------------------------------------------------------- messages
MissingKeyMessage == <<"API_KEY environment variable is not set.">>
TextResponsePrefix == <<"API returned a text response instead of an image: ">>
NoImageMessage == <<"Failed to process the image. The API did not return an image.">>
UnknownErrorMessage == <<"An unknown error occurred. Please try again.">>
DataUrlPrefix == <<"data:image/png;base64,">>

\* A thrown value: an Error carrying a message, or something that is no Error.
Error(msg) == [isError |-> TRUE, message |-> msg]
NotAnError == [isError |-> FALSE, message |-> Undefined]

\* What the SDK call can reject with.
Rejections == { Error(<<"Failed to fetch">>), Error(<< >>), NotAnError }


\* --------------------------------------------------------------- responses
\* A part of a response: inlineData (an object carrying data) and/or text.
ImagePart(d) == [inlineData |-> TRUE, data |-> d, text |-> Undefined]
TextPart(t) == [inlineData |-> FALSE, data |-> Undefined, text |-> t]

PartAlphabet ==
    { ImagePart(<<"QUJD">>), ImagePart(<<"REVG">>),
      TextPart(<<"I cannot edit this image.">>), TextPart(<< >>) }

SeqsUpTo(S, n) == UNION { [1..k -> S] : k \in 0..n }

\* A candidate: content may be missing, and so may content.parts.
Candidates ==
    { [hasContent |-> FALSE, hasParts |-> FALSE, parts |-> << >>],
      [hasContent |-> TRUE, hasParts |-> FALSE, parts |-> << >>] }
    \cup { [hasContent |-> TRUE, hasParts |-> TRUE, parts |-> ps] :
             ps \in SeqsUpTo(PartAlphabet, MaxParts) }

\* A GenerateContentResponse: candidates may be missing.
Responses ==
    { [hasCandidates |-> FALSE, candidates |-> << >>] }
    \cup { [hasCandidates |-> TRUE, candidates |-> cs] :
             cs \in SeqsUpTo(Candidates, MaxCandidates) }

\* response.candidates?.[0]?.content?.parts : the parts list, or undefined.
firstCandidateParts(response) ==
    IF /\ response.hasCandidates
       /\ Len(response.candidates) >= 1
       /\ response.candidates[1].hasContent
       /\ response.candidates[1].hasParts
    THEN [defined |-> TRUE, parts |-> response.candidates[1].parts]
    ELSE [defined |-> FALSE, parts |-> << >>]

\* parts?.find(part => part.inlineData) : index of the first such part, 0 for
\* undefined.
findInlineData(chain) ==
    IF chain.defined /\ \E i \in 1..Len(chain.parts) : chain.parts[i].inlineData
    THEN CHOOSE i \in 1..Len(chain.parts) :
            /\ chain.parts[i].inlineData
            /\ \A j \in 1..(i - 1) : ~chain.parts[j].inlineData
    ELSE 0

\* parts?.find(part => part.text) : index of the first part with truthy text.
findText(chain) ==
    IF chain.defined /\ \E i \in 1..Len(chain.parts) : Truthy(chain.parts[i].text)
    THEN CHOOSE i \in 1..Len(chain.parts) :
            /\ Truthy(chain.parts[i].text)
            /\ \A j \in 1..(i - 1) : ~Truthy(chain.parts[j].text)
    ELSE 0

\* How an async function settles: a returned value or a thrown one.
Return(v) == [kind |-> "return", data |-> v, error |-> NotAnError]
Throw(e) == [kind |-> "throw", data |-> Undefined, error |-> e]

\* Mutant: the refusal text is dropped and the generic error thrown instead.
removeBackgroundResult_dropsText(response) ==
    LET chain == firstCandidateParts(response)
        img == findInlineData(chain)
    IN  IF img # 0 THEN Return(chain.parts[img].data)
        ELSE Throw(Error(NoImageMessage))

\* Mutant: a response without image or text yields an empty result instead
\* of an error.
removeBackgroundResult_emptyOnNothing(response) ==
    LET chain == firstCandidateParts(response)
        img == findInlineData(chain)
        txt == findText(chain)
    IN  IF img # 0 THEN Return(chain.parts[img].data)
        ELSE IF txt # 0
             THEN Throw(Error(TextResponsePrefix \o chain.parts[txt].text))
             ELSE Return(<< >>)

\* Mutant: the text part is looked for before the image part.
removeBackgroundResult_textFirst(response) ==
    LET chain == firstCandidateParts(response)
        img == findInlineData(chain)
        txt == findText(chain)
    IN  IF txt # 0
        THEN Throw(Error(TextResponsePrefix \o chain.parts[txt].text))
        ELSE IF img # 0 THEN Return(chain.parts[img].data)
             ELSE Throw(Error(NoImageMessage))

\* removeBackground after generateContent resolved with `response`.
removeBackgroundResult(response) ==
    LET chain == firstCandidateParts(response)
        img == findInlineData(chain)
        txt == findText(chain)
    IN  IF img # 0 THEN Return(chain.parts[img].data)
        ELSE IF txt # 0
             THEN Throw(Error(TextResponsePrefix \o chain.parts[txt].text))
             ELSE Throw(Error(NoImageMessage))

\* Every way removeBackground can settle once the service has answered.
ResponseOutcomes == { removeBackgroundResult(r) : r \in Responses }

\* fileToGenerativePart's base64 data for FileReader.result `result`.
base64Data(result) ==
    IF result # Null THEN At(split(result, ","), 1) ELSE << >>

\* ------------------------------------------------------------------- state
NullUrl == 0

VARIABLES
    apiKey,             \* process.env.API_KEY
    mounted,            \* the App component is mounted
    originalFile,       \* useState<File | null>
    originalImageUrl,   \* useState<string | null> : an object URL handle
    processedImageUrl,  \* useState<string | null>
    appState,           \* useState<AppState>
    errorMessage,       \* useState<string>
    requests,           \* processFile invocations awaiting removeBackground
    urlsCreated,        \* object URLs handed out by URL.createObjectURL
    revokedUrls,        \* object URLs passed to URL.revokeObjectURL
    lastSettled,        \* the removeBackground call that settled last
    dropHighlight,      \* the drop zone carries its drag-over classes
    lastDownload,       \* link.download of the last download, or null
    probe               \* a response under test and removeBackground's answer

session == <<originalFile, originalImageUrl, processedImageUrl, appState, errorMessage>>
vars == <<apiKey, mounted, originalFile, originalImageUrl, processedImageUrl,
          appState, errorMessage, requests, urlsCreated, revokedUrls,
          lastSettled, dropHighlight, lastDownload, probe>>

NoSettle ==
    [id |-> 0, file |-> NullFile, outcome |-> Throw(NotAnError),
     reads |-> 0, calls |-> 0, applied |-> FALSE]
NoProbe == [response |-> [hasCandidates |-> FALSE, candidates |-> << >>],
            done |-> FALSE, outcome |-> Throw(NotAnError)]

Init ==
    /\ apiKey \in ApiKeys
    /\ mounted = TRUE
    /\ originalFile = NullFile
    /\ originalImageUrl = NullUrl
    /\ processedImageUrl = Null
    /\ appState = "initial"
    /\ errorMessage = << >>
    /\ requests = {}
    /\ urlsCreated = 0
    /\ revokedUrls = {}
    /\ lastSettled = NoSettle
    /\ dropHighlight = FALSE
    /\ lastDownload = Null
    /\ probe = NoProbe

\* Mutant: the loading state falls through to the upload view.
renderContent_loadingShowsUpload ==
    CASE appState = "result" -> "ResultView"
      [] appState = "error" -> "ErrorView"
      [] OTHER -> "UploadView"

\* Mutant: the loading state renders a view with the reset button.
renderContent_loadingOffersReset ==
    CASE appState = "loading" -> "ErrorView"
      [] appState = "result" -> "ResultView"
      [] appState = "error" -> "ErrorView"
      [] OTHER -> "UploadView"

\* Mutant: the error state falls through to the upload view.
renderContent_errorShowsUpload ==
    CASE appState = "loading" -> "LoadingView"
      [] appState = "result" -> "ResultView"
      [] OTHER -> "UploadView"

\* renderContent: the view on screen, which decides the handlers a user can
\* reach.
renderContent ==
    CASE appState = "loading" -> "LoadingView"
      [] appState = "result" -> "ResultView"
      [] appState = "error" -> "ErrorView"
      [] OTHER -> "UploadView"

\* Mutant: the effect returns no cleanup.
effectCleanup_none(old, new) == {}

\* The useEffect cleanup: when originalImageUrl changes (or the component
\* unmounts) the previous URL, if any, is revoked.
effectCleanup(old, new) == IF old # NullUrl /\ old # new THEN {old} ELSE {}

\* Mutant: the credential check is missing.
removeBackgroundStart_noKeyCheck(id, file) ==
    [id |-> id, file |-> file, pc |-> "reading", reads |-> 1, calls |-> 0,
     data |-> Undefined, error |-> NotAnError]

\* removeBackground up to its first suspension: the credential check, then
\* fileToGenerativePart starts reading the file.
removeBackgroundStart(id, file) ==
    IF ~Truthy(apiKey)
    THEN [id |-> id, file |-> file, pc |-> "threw", reads |-> 0, calls |-> 0,
          data |-> Undefined, error |-> Error(MissingKeyMessage)]
    ELSE [id |-> id, file |-> file, pc |-> "reading", reads |-> 1, calls |-> 0,
          data |-> Undefined, error |-> NotAnError]

\* Mutant: setOriginalFile(file) is missing.
processFile_dropsFile(file) ==
    LET url == urlsCreated + 1 IN
    /\ appState' = "loading"
    /\ originalFile' = originalFile
    /\ processedImageUrl' = Null
    /\ errorMessage' = << >>
    /\ urlsCreated' = url
    /\ originalImageUrl' = url
    /\ revokedUrls' = revokedUrls \cup effectCleanup(originalImageUrl, url)
    /\ requests' = requests \cup {removeBackgroundStart(url, file)}
    /\ dropHighlight' = FALSE
    /\ UNCHANGED <<apiKey, mounted, lastSettled, lastDownload, probe>>

\* Mutant: setAppState('loading') is missing.
processFile_skipsLoading(file) ==
    LET url == urlsCreated + 1 IN
    /\ appState' = appState
    /\ originalFile' = file
    /\ processedImageUrl' = Null
    /\ errorMessage' = << >>
    /\ urlsCreated' = url
    /\ originalImageUrl' = url
    /\ revokedUrls' = revokedUrls \cup effectCleanup(originalImageUrl, url)
    /\ requests' = requests \cup {removeBackgroundStart(url, file)}
    /\ dropHighlight' = FALSE
    /\ UNCHANGED <<apiKey, mounted, lastSettled, lastDownload, probe>>

\* processFile up to its await.  The re-render replaces the upload view, so
\* its drop zone and the classes on it are gone.
processFile(file) ==
    LET url == urlsCreated + 1 IN
    /\ appState' = "loading"
    /\ originalFile' = file
    /\ processedImageUrl' = Null
    /\ errorMessage' = << >>
    /\ urlsCreated' = url
    /\ originalImageUrl' = url
    /\ revokedUrls' = revokedUrls \cup effectCleanup(originalImageUrl, url)
    /\ requests' = requests \cup {removeBackgroundStart(url, file)}
    /\ dropHighlight' = FALSE
    /\ UNCHANGED <<apiKey, mounted, lastSettled, lastDownload, probe>>

\* handleFileChange: the picker's change event, with or without a file.
handleFileChange(file) ==
    /\ mounted
    /\ renderContent = "UploadView"
    /\ urlsCreated < MaxSubmits
    /\ IF file # NoFile THEN processFile(file) ELSE UNCHANGED vars

\* Mutant: the media-type check is missing.
handleDrop_noTypeCheck(file) ==
    /\ mounted
    /\ renderContent = "UploadView"
    /\ urlsCreated < MaxSubmits
    /\ IF file # NoFile
       THEN processFile(file)
       ELSE /\ dropHighlight' = FALSE
            /\ UNCHANGED <<apiKey, mounted, session, requests, urlsCreated,
                           revokedUrls, lastSettled, lastDownload, probe>>

\* handleDrop: a drop event; only files of an image media type go on.
handleDrop(file) ==
    /\ mounted
    /\ renderContent = "UploadView"
    /\ urlsCreated < MaxSubmits
    /\ IF file # NoFile /\ startsWith(FileType(file), <<"image/">>)
       THEN processFile(file)
       ELSE /\ dropHighlight' = FALSE
            /\ UNCHANGED <<apiKey, mounted, session, requests, urlsCreated,
                           revokedUrls, lastSettled, lastDownload, probe>>

\* Mutant: the error text is not cleared.
handleReset_keepsError ==
    /\ mounted
    /\ renderContent \in {"ResultView", "ErrorView"}
    /\ originalFile' = NullFile
    /\ revokedUrls' = revokedUrls
          \cup (IF originalImageUrl # NullUrl THEN {originalImageUrl} ELSE {})
    /\ originalImageUrl' = NullUrl
    /\ processedImageUrl' = Null
    /\ errorMessage' = errorMessage
    /\ appState' = "initial"
    /\ UNCHANGED <<apiKey, mounted, requests, urlsCreated, lastSettled,
                   dropHighlight, lastDownload, probe>>

\* handleReset, followed by the effect cleanup of the re-render.
handleReset ==
    /\ mounted
    /\ renderContent \in {"ResultView", "ErrorView"}
    /\ originalFile' = NullFile
    /\ revokedUrls' = revokedUrls
          \cup (IF originalImageUrl # NullUrl THEN {originalImageUrl} ELSE {})
          \cup effectCleanup(originalImageUrl, NullUrl)
    /\ originalImageUrl' = NullUrl
    /\ processedImageUrl' = Null
    /\ errorMessage' = << >>
    /\ appState' = "initial"
    /\ UNCHANGED <<apiKey, mounted, requests, urlsCreated, lastSettled,
                   dropHighlight, lastDownload, probe>>

\* handleDragEnter: the drop zone gets its drag-over classes.
handleDragEnter ==
    /\ mounted
    /\ renderContent = "UploadView"
    /\ dropHighlight' = TRUE
    /\ UNCHANGED <<apiKey, mounted, session, requests, urlsCreated, revokedUrls,
                   lastSettled, lastDownload, probe>>

\* handleDragLeave: the drop zone loses them.
handleDragLeave ==
    /\ mounted
    /\ renderContent = "UploadView"
    /\ dropHighlight' = FALSE
    /\ UNCHANGED <<apiKey, mounted, session, requests, urlsCreated, revokedUrls,
                   lastSettled, lastDownload, probe>>

\* s.lastIndexOf(t) for a one-token t: the zero-based index, -1 when absent.
lastIndexOf(s, t) ==
    IF \E i \in 1..Len(s) : s[i] = t
    THEN (CHOOSE i \in 1..Len(s) :
             s[i] = t /\ \A j \in (i + 1)..Len(s) : s[j] # t) - 1
    ELSE -1

\* s.substring(a, b): both indices clamped to 0..length and swapped when
\* a > b.
substring(s, a, b) ==
    LET clamp(i) == IF i < 0 THEN 0 ELSE IF i > Len(s) THEN Len(s) ELSE i
        lo == IF clamp(a) <= clamp(b) THEN clamp(a) ELSE clamp(b)
        hi == IF clamp(a) <= clamp(b) THEN clamp(b) ELSE clamp(a)
    IN  SubSeq(s, lo + 1, hi)

\* originalFile?.name, the fileName prop of ResultView.
fileNameProp(f) == IF f = NullFile THEN Undefined ELSE FileName(f)

\* link.download as downloadImage computes it from the fileName prop.
downloadName(fileName) ==
    LET baseName == IF fileName = Undefined THEN Undefined
                    ELSE substring(fileName, 0, lastIndexOf(fileName, "."))
    IN  (IF Truthy(baseName) THEN baseName ELSE <<"image">>) \o <<"_no_bg.png">>

\* downloadImage: the Download button of the result view.
downloadImage ==
    /\ mounted
    /\ renderContent = "ResultView"
    /\ lastDownload' = downloadName(fileNameProp(originalFile))
    /\ UNCHANGED <<apiKey, mounted, session, requests, urlsCreated, revokedUrls,
                   lastSettled, dropHighlight, probe>>

\* The component unmounts: the effect cleanup runs one last time.
unmount ==
    /\ mounted
    /\ mounted' = FALSE
    /\ revokedUrls' = revokedUrls \cup effectCleanup(originalImageUrl, NullUrl)
    /\ dropHighlight' = FALSE
    /\ UNCHANGED <<apiKey, session, requests, urlsCreated, lastSettled,
                   lastDownload, probe>>

\* Mutant: the processed image is stored but the state is left at loading.
processFileThen_staysLoading(resultBase64) ==
    IF mounted
    THEN /\ processedImageUrl' = DataUrlPrefix \o ToStr(resultBase64)
         /\ UNCHANGED <<originalFile, originalImageUrl, errorMessage, appState>>
    ELSE UNCHANGED session

\* processFile after its await, when removeBackground returned resultBase64.
\* A state setter of an unmounted component changes nothing.
processFileThen(resultBase64) ==
    IF mounted
    THEN /\ processedImageUrl' = DataUrlPrefix \o ToStr(resultBase64)
         /\ appState' = "result"
         /\ UNCHANGED <<originalFile, originalImageUrl, errorMessage>>
    ELSE UNCHANGED session

\* processFile's catch block.
processFileCatch(error) ==
    IF mounted
    THEN /\ errorMessage' = (IF error.isError THEN error.message
                             ELSE UnknownErrorMessage)
         /\ appState' = "error"
         /\ UNCHANGED <<originalFile, originalImageUrl, processedImageUrl>>
    ELSE UNCHANGED session

\* removeBackground settles with `outcome` and processFile resumes.
settle(r, outcome) ==
    /\ requests' = requests \ {r}
    /\ lastSettled' = [id |-> r.id, file |-> r.file, outcome |-> outcome,
                       reads |-> r.reads, calls |-> r.calls, applied |-> mounted]
    /\ IF outcome.kind = "return"
       THEN processFileThen(outcome.data)
       ELSE processFileCatch(outcome.error)
    /\ UNCHANGED <<apiKey, mounted, urlsCreated, revokedUrls, dropHighlight,
                   lastDownload, probe>>

\* The missing-credential throw reaches processFile's catch.
credentialThrown(r) ==
    /\ r \in requests
    /\ r.pc = "threw"
    /\ settle(r, Throw(r.error))

\* Mutant: the promise is resolved only when the read yields a string.
readLoadEnd_resolvesOnlyStrings(r, result) ==
    /\ r \in requests
    /\ r.pc = "reading"
    /\ requests' = (requests \ {r})
          \cup {IF result # Null
                THEN [r EXCEPT !.pc = "generating", !.data = base64Data(result),
                               !.calls = r.calls + 1]
                ELSE [r EXCEPT !.pc = "unresolved"]}
    /\ UNCHANGED <<apiKey, mounted, session, urlsCreated, revokedUrls,
                   lastSettled, dropHighlight, lastDownload, probe>>

\* reader.onloadend: the data is extracted and generateContent is called.
readLoadEnd(r, result) ==
    /\ r \in requests
    /\ r.pc = "reading"
    /\ requests' = (requests \ {r})
          \cup {[r EXCEPT !.pc = "generating", !.data = base64Data(result),
                          !.calls = r.calls + 1]}
    /\ UNCHANGED <<apiKey, mounted, session, urlsCreated, revokedUrls,
                   lastSettled, dropHighlight, lastDownload, probe>>

\* generateContent resolves and removeBackground inspects the response.
generateResolved(r, outcome) ==
    /\ r \in requests
    /\ r.pc = "generating"
    /\ settle(r, outcome)

\* Mutant: a rejected generateContent call is tried once more.
generateRejected_retries(r, e) ==
    /\ r \in requests
    /\ r.pc = "generating"
    /\ IF r.calls < 2
       THEN /\ requests' = (requests \ {r}) \cup {[r EXCEPT !.calls = r.calls + 1]}
            /\ UNCHANGED <<apiKey, mounted, session, urlsCreated, revokedUrls,
                           lastSettled, dropHighlight, lastDownload, probe>>
       ELSE settle(r, Throw(e))

\* generateContent rejects: removeBackground rethrows.
generateRejected(r, e) ==
    /\ r \in requests
    /\ r.pc = "generating"
    /\ settle(r, Throw(e))

Next ==
    \/ \E f \in Files \cup {NoFile} : handleFileChange(f)
    \/ \E f \in Files \cup {NoFile} : handleDrop(f)
    \/ handleDragEnter
    \/ handleDragLeave
    \/ handleReset
    \/ downloadImage
    \/ unmount
    \/ \E r \in requests : credentialThrown(r)
    \/ \E r \in requests, res \in ReadResults : readLoadEnd(r, res)
    \/ \E r \in requests, o \in ResponseOutcomes : generateResolved(r, o)
    \/ \E r \in requests, e \in Rejections : generateRejected(r, e)

Spec == Init /\ [][Next]_vars

\* What the platform guarantees of a pending request: the continuation of a
\* thrown credential error runs, the FileReader fires loadend, and (the
\* assumption liveness is stated under) the service call resolves or rejects.
Fairness ==
    /\ WF_vars(\E r \in requests : credentialThrown(r))
    /\ WF_vars(\E r \in requests, res \in ReadResults : readLoadEnd(r, res))
    /\ WF_vars(\E r \in requests :
                  \/ \E o \in ResponseOutcomes : generateResolved(r, o)
                  \/ \E e \in Rejections : generateRejected(r, e))

SpecLive == Init /\ [][Next]_vars /\ Fairness

\* ---------------------------------------------- the client on one response
\* removeBackground's response handling applied to every bounded response.
InitClient ==
    /\ apiKey = <<"k3y">>
    /\ mounted = TRUE
    /\ originalFile = NullFile
    /\ originalImageUrl = NullUrl
    /\ processedImageUrl = Null
    /\ appState = "initial"
    /\ errorMessage = << >>
    /\ requests = {}
    /\ urlsCreated = 0
    /\ revokedUrls = {}
    /\ lastSettled = NoSettle
    /\ dropHighlight = FALSE
    /\ lastDownload = Null
    /\ \E r \in Responses : probe = [NoProbe EXCEPT !.response = r]

inspectResponse ==
    /\ ~probe.done
    /\ probe' = [probe EXCEPT !.done = TRUE,
                              !.outcome = removeBackgroundResult(probe.response)]
    /\ UNCHANGED <<apiKey, mounted, session, requests, urlsCreated, revokedUrls,
                   lastSettled, dropHighlight, lastDownload>>

NextClient == inspectResponse

SpecClient == InitClient /\ [][NextClient]_vars


\* ------------------------------------------------------------------ claims
\* A step in which a removeBackground call settles and the mounted
\* component's processFile resumes.
SettleStep == lastSettled' # lastSettled /\ lastSettled'.applied

\* A step in which processFile is entered (a file is submitted).
SubmitStep == urlsCreated' # urlsCreated

\* Every session field holds its cleared value.
SessionCleared ==
    /\ appState = "initial"
    /\ originalFile = NullFile
    /\ originalImageUrl = NullUrl
    /\ processedImageUrl = Null
    /\ errorMessage = << >>

\* C1: every submission goes initial -> loading -> (result | error): a
\* submission starts in initial and puts the state to loading, the state
\* leaves initial only to loading, and it becomes result or error only from
\* loading, by the settling of the request of the file then held as source.
C1_LoadingNeverSkipped ==
    [][ /\ SubmitStep => (appState = "initial" /\ appState' = "loading")
        /\ (appState = "initial" /\ appState' # "initial") => appState' = "loading"
        /\ ((appState' \in {"result", "error"} /\ appState' # appState) \/ SettleStep)
              => /\ appState = "loading"
                 /\ appState' \in {"result", "error"}
                 /\ SettleStep
                 /\ lastSettled'.id = originalImageUrl
                 /\ lastSettled'.file = originalFile
      ]_vars

\* C1 witness: a submission has run through loading to a result.
C1_Witness ==
    /\ appState = "result"
    /\ lastSettled.applied
    /\ lastSettled.id = originalImageUrl

\* C2: result implies source file, source URL and processed image are all
\* present; error implies a non-empty error text and no processed image.
C2_StateInvariant ==
    /\ appState = "result"
          => /\ originalFile # NullFile
             /\ originalImageUrl # NullUrl
             /\ Truthy(processedImageUrl)
    /\ appState = "error"
          => /\ errorMessage # << >>
             /\ processedImageUrl = Null

\* C3: a reset leaves appState = initial and every session field cleared.
C3_ResetClears == [][handleReset => SessionCleared']_vars

\* C3 witness: a reset has acted on a session that had reached a result.
C3_Witness ==
    /\ SessionCleared
    /\ mounted
    /\ lastSettled.applied
    /\ lastSettled.outcome.kind = "return"
    /\ lastSettled.id \in revokedUrls

\* C4: when removeBackground rejects, the controller ends in error with a
\* non-empty errorMessage: the failure's message text, or the generic
\* fallback when the failure carries no message.
C4_RejectGivesError ==
    [][ (SettleStep /\ lastSettled'.outcome.kind = "throw")
          => LET e == lastSettled'.outcome.error IN
             /\ appState' = "error"
             /\ errorMessage' # << >>
             /\ errorMessage' = (IF e.isError /\ Truthy(e.message)
                                 THEN e.message ELSE UnknownErrorMessage)
      ]_vars

\* C5: when removeBackground resolves with encoded data, the controller ends
\* in result with the original reference and the processed reference (the
\* data URL built from that data) both non-empty.
C5_ResolveGivesResult ==
    [][ (SettleStep /\ lastSettled'.outcome.kind = "return")
          => /\ appState' = "result"
             /\ originalFile' # NullFile
             /\ originalImageUrl' # NullUrl
             /\ Truthy(processedImageUrl')
             /\ processedImageUrl' = DataUrlPrefix \o ToStr(lastSettled'.outcome.data)
      ]_vars

\* C5 witness: a resolved call has produced a result for the current source.
C5_Witness ==
    /\ lastSettled.applied
    /\ lastSettled.outcome.kind = "return"
    /\ appState = "result"
    /\ processedImageUrl = DataUrlPrefix \o <<"QUJD">>

\* C6: with the credential absent, removeBackground fails with the
\* missing-credential message without reading the file and without calling
\* generateContent, in flight and once settled.
C6_MissingCredential ==
    ~Truthy(apiKey)
       => /\ \A r \in requests :
               /\ r.pc = "threw"
               /\ r.error = Error(MissingKeyMessage)
               /\ r.reads = 0
               /\ r.calls = 0
          /\ lastSettled # NoSettle
               => /\ lastSettled.outcome = Throw(Error(MissingKeyMessage))
                  /\ lastSettled.reads = 0
                  /\ lastSettled.calls = 0
                  /\ (lastSettled.applied /\ lastSettled.id = originalImageUrl
                        => errorMessage = MissingKeyMessage)

\* C6 witness: without a credential a submission has ended in the
\* missing-credential error.
C6_Witness ==
    /\ apiKey = Undefined
    /\ lastSettled.applied
    /\ lastSettled.calls = 0
    /\ appState = "error"
    /\ errorMessage = MissingKeyMessage

\* C10: an error is terminal: from error the state and the message stay as
\* they are and no request is started, until a reset takes the session to
\* initial.
C10_ErrorTerminal ==
    [][ appState = "error"
          => \/ /\ appState' = "error"
                /\ errorMessage' = errorMessage
                /\ ~SubmitStep
                /\ requests' = requests
             \/ /\ handleReset
                /\ appState' = "initial"
      ]_vars

\* C10 witness: the session left an error by a reset.
C10_Witness ==
    /\ appState = "initial"
    /\ mounted
    /\ lastSettled.applied
    /\ lastSettled.outcome.kind = "throw"
    /\ lastSettled.id \in revokedUrls


\* ---------------------------------------------------- claims on the client
\* The parts a candidate carries (none when content or parts is missing).
candidateParts(c) == IF c.hasContent /\ c.hasParts THEN c.parts ELSE << >>

\* The parts of every candidate of the response, in order.
RECURSIVE partsFrom(_, _)
partsFrom(cs, i) ==
    IF i > Len(cs) THEN << >> ELSE candidateParts(cs[i]) \o partsFrom(cs, i + 1)

allParts(response) ==
    IF response.hasCandidates THEN partsFrom(response.candidates, 1) ELSE << >>

\* The parts of the first candidate alone.
firstParts(response) ==
    IF response.hasCandidates /\ Len(response.candidates) >= 1
    THEN candidateParts(response.candidates[1])
    ELSE << >>

IsImagePart(p) == p.inlineData
IsTextPart(p) == p.text # Undefined
HasText(p) == Truthy(p.text)

\* The outcome is the text-refusal error.
IsTextRefusal(outcome) ==
    /\ outcome.kind = "throw"
    /\ outcome.error.isError
    /\ startsWith(outcome.error.message, TextResponsePrefix)

\* C7 as stated: a response with a text part and no inline-image part, in
\* whatever candidate, fails with a message containing each such text.
C7_TextAnywhereEmbedded ==
    probe.done =>
       LET ps == allParts(probe.response)
           texts == SelectSeq(ps, IsTextPart)
       IN  (Len(SelectSeq(ps, IsImagePart)) = 0 /\ Len(texts) > 0)
              => /\ probe.outcome.kind = "throw"
                 /\ \A i \in 1..Len(texts) :
                       Contains(probe.outcome.error.message, texts[i].text)

\* C7 amended: when the first candidate's parts hold no inline-image part and
\* a part with non-empty text, removeBackground fails with the refusal prefix
\* followed by the text of the first such part, verbatim.
C7_FirstCandidateTextEmbedded ==
    probe.done =>
       LET ps == firstParts(probe.response)
           texts == SelectSeq(ps, HasText)
       IN  (Len(SelectSeq(ps, IsImagePart)) = 0 /\ Len(texts) > 0)
              => /\ probe.outcome = Throw(Error(TextResponsePrefix \o texts[1].text))
                 /\ Contains(probe.outcome.error.message, texts[1].text)

\* C7 witness: a first candidate with an empty and a non-empty text part and
\* no image has been turned into the refusal error.
C7_Witness ==
    /\ probe.done
    /\ firstParts(probe.response)
          = <<TextPart(<< >>), TextPart(<<"I cannot edit this image.">>)>>
    /\ IsTextRefusal(probe.outcome)

\* C8: a response with neither an inline-image part nor a text part (no
\* candidates, no content, no parts or an empty parts list included) fails
\* with the generic did-not-return-an-image error.
C8_NothingGivesFallback ==
    probe.done =>
       LET ps == allParts(probe.response)
       IN  (Len(SelectSeq(ps, IsImagePart)) = 0 /\ Len(SelectSeq(ps, IsTextPart)) = 0)
              => probe.outcome = Throw(Error(NoImageMessage))

\* C8 witness: a response whose candidates carry no part at all has been
\* answered with the generic error.
C8_Witness ==
    /\ probe.done
    /\ probe.response.hasCandidates
    /\ Len(probe.response.candidates) = 2
    /\ ~probe.response.candidates[1].hasContent
    /\ probe.response.candidates[2].hasParts
    /\ allParts(probe.response) = << >>
    /\ probe.outcome = Throw(Error(NoImageMessage))

\* C9 as stated: an inline-image part anywhere in the response makes
\* removeBackground return the data of the first such part, and the refusal
\* error is raised only when the response holds no image part.
C9_ImageAnywhereReturned ==
    probe.done =>
       LET imgs == SelectSeq(allParts(probe.response), IsImagePart)
       IN  /\ Len(imgs) > 0 => probe.outcome = Return(imgs[1].data)
           /\ IsTextRefusal(probe.outcome) => Len(imgs) = 0

\* C9 amended: an inline-image part anywhere in the first candidate's parts
\* makes removeBackground return the data of the first such part, whatever
\* text parts are present or precede it; the refusal error is raised only
\* when the first candidate holds no image part.
C9_FirstCandidateImageReturned ==
    probe.done =>
       LET imgs == SelectSeq(firstParts(probe.response), IsImagePart)
       IN  /\ Len(imgs) > 0 => probe.outcome = Return(imgs[1].data)
           /\ IsTextRefusal(probe.outcome) => Len(imgs) = 0

\* C9 witness: the image part that follows a text part has been returned.
C9_Witness ==
    /\ probe.done
    /\ firstParts(probe.response)
          = <<TextPart(<<"I cannot edit this image.">>), ImagePart(<<"REVG">>)>>
    /\ probe.outcome = Return(<<"REVG">>)


\* ------------------------------------------------- claims on the controller
\* C11: at most one removeBackground request is in flight at any time.
C11_OneInFlight == Cardinality(requests) <= 1

\* C11 witness: after an earlier request settled and the session was reset,
\* a later submission has its single request in flight.
C11_Witness ==
    /\ Cardinality(requests) = 1
    /\ lastSettled.applied
    /\ appState = "loading"
    /\ \A r \in requests : r.id = originalImageUrl /\ r.id > lastSettled.id

\* C12: a removeBackground call issues one generateContent call when the
\* credential is present and none otherwise, and a settled submission never
\* has a request again.
C12_OneCallPerSubmission ==
    /\ \A r \in requests :
          /\ r.calls = (IF r.pc = "generating" THEN 1 ELSE 0)
          /\ r.pc = "generating" => Truthy(apiKey)
          /\ r.id > lastSettled.id
    /\ lastSettled # NoSettle
          => lastSettled.calls = (IF Truthy(apiKey) THEN 1 ELSE 0)

\* C12 witness: a rejected call has settled after its one generateContent
\* call and nothing is in flight.
C12_Witness ==
    /\ lastSettled.calls = 1
    /\ lastSettled.outcome.kind = "throw"
    /\ lastSettled.outcome.error = Error(<<"Failed to fetch">>)
    /\ requests = {}
    /\ appState = "error"

\* C13: right after a submission the state is loading, the processed image
\* and the error text are cleared, and the session holds the submitted file
\* with a fresh, unrevoked preview URL, for which the one new request runs.
C13_SubmitEffect ==
    [][ SubmitStep
          => /\ appState' = "loading"
             /\ processedImageUrl' = Null
             /\ errorMessage' = << >>
             /\ originalFile' \in Files
             /\ originalImageUrl' = urlsCreated'
             /\ originalImageUrl' > urlsCreated
             /\ originalImageUrl' \notin revokedUrls'
             /\ \E r \in requests' :
                   /\ requests' = requests \cup {r}
                   /\ r.id = originalImageUrl'
                   /\ r.file = originalFile'
      ]_vars

\* C13 witness: a second submission, made after an error and a reset, has
\* just put the session to loading.
C13_Witness ==
    /\ appState = "loading"
    /\ lastSettled.applied
    /\ lastSettled.outcome.kind = "throw"
    /\ originalImageUrl = urlsCreated
    /\ originalImageUrl \notin revokedUrls
    /\ originalFile # NullFile


\* The file's media type starts with 'image/'.
IsImageType(f) == startsWith(FileType(f), <<"image/">>)

\* C14: a dropped file whose media type does not start with 'image/' leaves
\* the session, the requests and the preview URLs as they were; a file chosen
\* through the picker is submitted whatever its media type, and the picker
\* accepts every file while the upload view is shown.
C14_DropFilter ==
    [][ \A f \in Files :
          /\ (handleDrop(f) /\ ~IsImageType(f))
                => UNCHANGED <<session, requests, urlsCreated, revokedUrls,
                               lastSettled, lastDownload>>
          /\ handleFileChange(f)
                => /\ SubmitStep
                   /\ originalFile' = f
                   /\ \E r \in requests' : r.file = f /\ r.id = urlsCreated'
          /\ (mounted /\ renderContent = "UploadView" /\ urlsCreated < MaxSubmits)
                => ENABLED (handleFileChange(f) /\ originalFile' = f)
      ]_vars

\* C14 witness: a file of a non-image media type, which only the picker lets
\* through, is being processed.
C14_Witness ==
    /\ appState = "loading"
    /\ originalFile \in Files
    /\ ~IsImageType(originalFile)
    /\ \E r \in requests : r.file = originalFile


\* C15: every preview URL ever created is revoked, except the one the mounted
\* component still shows; once the session is back to initial, or the
\* component is unmounted, none is left.
C15_NoUrlLeak ==
    /\ revokedUrls \subseteq 1..urlsCreated
    /\ \A u \in 1..urlsCreated :
          u \in revokedUrls \/ (mounted /\ u = originalImageUrl)
    /\ (appState = "initial" \/ ~mounted) => revokedUrls = 1..urlsCreated

\* C15 witness: two sessions have ended, the first by a reset and the second
\* by the unmount while loading, and both preview URLs are revoked.
C15_Witness ==
    /\ ~mounted
    /\ appState = "loading"
    /\ urlsCreated = 2
    /\ originalImageUrl = 2
    /\ revokedUrls = {1, 2}

\* C16: while the component stays mounted, a session in loading eventually
\* reaches result or error.
C16_LoadingSettles ==
    (appState = "loading" /\ mounted)
       ~> (appState \in {"result", "error"} \/ ~mounted)

\* C16 witness: a request whose file read has completed and whose service
\* call has answered has taken the session from loading to a result.
C16_Witness ==
    /\ mounted
    /\ appState = "result"
    /\ requests = {}
    /\ lastSettled.applied
    /\ lastSettled.reads = 1
    /\ lastSettled.calls = 1


\* A file name with its last extension removed: the part before the last
\* dot, the whole name when it has no dot.
baseNameOf(name) ==
    IF \E i \in 1..Len(name) : name[i] = "."
    THEN SubSeq(name, 1,
                (CHOOSE i \in 1..Len(name) :
                    name[i] = "." /\ \A j \in (i + 1)..Len(name) : name[j] # ".") - 1)
    ELSE name

\* C17: a download is named by the original file name's base name followed
\* by '_no_bg.png'; the default base name 'image' is used only when no
\* original file name is available.
C17_DownloadName ==
    [][ downloadImage
          => lastDownload' =
                (IF originalFile = NullFile THEN <<"image">>
                 ELSE baseNameOf(FileName(originalFile))) \o <<"_no_bg.png">>
      ]_vars

\* C18: a result or an error shown belongs to the source held: it was
\* installed by the request issued for the current file and preview URL, the
\* processed image is that request's output, and every request in flight is
\* the one of the current source.
C18_ResultBelongsToSource ==
    /\ appState \in {"result", "error"}
          => /\ lastSettled.applied
             /\ lastSettled.id = originalImageUrl
             /\ lastSettled.file = originalFile
    /\ appState = "result"
          => /\ lastSettled.outcome.kind = "return"
             /\ processedImageUrl = DataUrlPrefix \o ToStr(lastSettled.outcome.data)
    /\ \A r \in requests : r.id = originalImageUrl /\ r.file = originalFile

\* C18 witness: after a first session was reset, the second source's own
\* request has installed its result.
C18_Witness ==
    /\ appState = "result"
    /\ urlsCreated = 2
    /\ originalImageUrl = 2
    /\ lastSettled.id = 2
    /\ lastSettled.file = originalFile
    /\ 1 \in revokedUrls

=============================================================================
